---- MODULE Spec2Model ----
(***************************************************************************)
(* PayOS UCP settlement client (docs/ucp/examples/python/settlement.py).   *)
(*                                                                         *)
(* One PayOSUCPClient and one synchronous caller.  The remote service and  *)
(* the wall clock are the environment: every HTTP response (status code    *)
(* and body) and every duration are chosen nondeterministically.  A status  *)
(* read takes 0 or more seconds, time.sleep(2) takes 2 or more seconds,    *)
(* and the clock does not step backwards.  A successful status response    *)
(* carries a "status" field, as the Settlement records of the service do.  *)
(*                                                                         *)
(* Python values are modelled as follows:                                  *)
(*   dict            a function with a domain of strings (a record)        *)
(*   Optional[T]     None is <<>>, a supplied value v is <<v>>             *)
(*   str             a string; f-strings are concatenations                *)
(***************************************************************************)
EXTENDS Integers, Sequences, FiniteSets, TLC

VARIABLES
    api_key,          \* self.api_key
    base_url,         \* self.base_url
    headers,          \* self.headers
    ctor,             \* the arguments __init__ was called with
    pc,               \* position of the caller: "idle", or a line of wait_for_completion
    op,               \* the operation called last (or running)
    args,             \* its arguments
    outcome,          \* how it ended: a returned value or a raised exception
    lastReq,          \* the HTTP request issued last
    lastResp,         \* the HTTP response received last
    sent,             \* HTTP requests issued by the call so far
    now,              \* time.time()
    start_time,       \* wait_for_completion: local start_time
    status,           \* wait_for_completion: local status
    seen,             \* wait_for_completion: the records its reads returned, in order
    sleeps            \* wait_for_completion: completed time.sleep(2) calls

vars == << api_key, base_url, headers, ctor, pc, op, args, outcome, lastReq,
           lastResp, sent, now, start_time, status, seen, sleeps >>

config == << api_key, base_url, headers, ctor >>
\* the client object, as the methods see it
client == [api_key |-> api_key, base_url |-> base_url, headers |-> headers]
locals == << start_time, status, seen, sleeps >>

-----------------------------------------------------------------------------
(* Bounds of the model                                                     *)

MaxWait == 5          \* max_wait_seconds ranges over -1 .. MaxWait
MaxReadCost == 1      \* a status read takes 0 .. MaxReadCost seconds
MaxOversleep == 1     \* time.sleep(2) takes 2 .. 2 + MaxOversleep seconds
MaxClock == 2         \* wait_for_completion is entered at times 0 .. MaxClock

-----------------------------------------------------------------------------
(* Python values                                                           *)

None == << >>
Some(v) == << v >>
Supplied(opt) == opt # None
Value(opt) == opt[1]

EmptyDict == [k \in {} |-> ""]

\* bool(x) of an Optional[str]: None and "" are falsy
TruthyStr(opt) == Supplied(opt) /\ Value(opt) # ""
\* bool(x) of an Optional[dict]: None and {} are falsy
TruthyDict(opt) == Supplied(opt) /\ DOMAIN Value(opt) # {}

\* no request, no response, no outcome yet
NoValue == [kind |-> "none"]

-----------------------------------------------------------------------------
(* Inputs                                                                  *)

ApiKeys == {"pk_test_1", "pk_test_2"}
BaseUrls == {"https://api.payos.com"}
Corridors == {"pix", "spei"}
Amounts == {100}
Currencies == {"USD"}
Tokens == {"tok_1"}
SettlementIds == {"stl_1"}
OptStrings == {None, Some(""), Some("x1")}
OptDicts == {None, Some(EmptyDict), Some([order_id |-> "order_12345"])}
MaxWaits == (0 - 1) .. MaxWait

\* HTTP status codes the service answers with
StatusCodes == {200, 404, 500}
ErrorBody == [error |-> "error"]
\* Bodies of successful quote / token / settle responses
Bodies == {[id |-> "r1"], [id |-> "r2"]}
\* Bodies of successful settlement status responses
StatusRecords ==
    { [status |-> "pending"],
      [status |-> "processing"],
      [status |-> "completed", transfer_id |-> "tr_1"],
      [status |-> "completed", transfer_id |-> "tr_2"],
      [status |-> "failed"],
      [status |-> "failed", failure_reason |-> "insufficient_funds"] }

-----------------------------------------------------------------------------
(* PayOSUCPClient.__init__                                                 *)

MakeHeaders(key) ==
    [ Authorization |-> "Bearer " \o key ]
      @@ ("Content-Type" :> "application/json")
      @@ ("UCP-Agent" :> "PythonExample/2026-01-11")

Init ==
    /\ \E k \in ApiKeys, u \in BaseUrls :
          /\ api_key = k
          /\ base_url = u
          /\ headers = MakeHeaders(k)
          /\ ctor = [api_key |-> k, base_url |-> u]
    /\ pc = "idle"
    /\ op = "__init__"
    /\ args = NoValue
    /\ outcome = NoValue
    /\ lastReq = NoValue
    /\ lastResp = NoValue
    /\ sent = 0
    /\ now = 0
    /\ start_time = 0
    /\ status = NoValue
    /\ seen = << >>
    /\ sleeps = 0

-----------------------------------------------------------------------------
(* requests: one request, one response                                     *)

\* headers=self.headers (variant: the Authorization header is lost)
RequestHeadersDropAuth(h) == [k \in DOMAIN h \ {"Authorization"} |-> h[k]]
RequestHeaders(h) == h

Post(self, url, payload) ==
    [method |-> "POST", url |-> url, headers |-> RequestHeaders(self.headers),
     json |-> payload]
Get(self, url) ==
    [method |-> "GET", url |-> url, headers |-> RequestHeaders(self.headers)]

Response(code, body) ==
    [status_code |-> code, body |-> IF code >= 400 THEN ErrorBody ELSE body]

\* response.raise_for_status(): HTTPError for 4xx and 5xx
\* (variant: the call is missing)
RaiseForStatusNever(resp) == FALSE
RaiseForStatus(resp) == resp.status_code >= 400 /\ resp.status_code < 600

Returned(v) == [kind |-> "return", value |-> v]
HTTPError(resp) == [kind |-> "HTTPError", status_code |-> resp.status_code]
Raised(msg) == [kind |-> "Exception", message |-> msg]
KeyError(k) == [kind |-> "KeyError", key |-> k]

\* response.raise_for_status(); return response.json()
Finish(resp) == IF RaiseForStatus(resp) THEN HTTPError(resp) ELSE Returned(resp.body)

\* A call that issues one request and returns its JSON body
SimpleCall(name, a, req, resp) ==
    /\ pc = "idle"
    /\ op' = name
    /\ args' = a
    /\ lastReq' = req
    /\ lastResp' = resp
    /\ sent' = 1
    /\ outcome' = Finish(resp)
    /\ start_time' = 0 /\ status' = NoValue /\ seen' = << >> /\ sleeps' = 0
    /\ UNCHANGED << config, pc, now >>

-----------------------------------------------------------------------------
(* get_quote                                                               *)

QuotePayload(corridor, amount, currency) ==
    [corridor |-> corridor, amount |-> amount, currency |-> currency]

get_quote(self, corridor, amount, currency, code, body) ==
    SimpleCall("get_quote",
               [corridor |-> corridor, amount |-> amount, currency |-> currency],
               Post(self, self.base_url \o "/v1/ucp/quote",
                    QuotePayload(corridor, amount, currency)),
               Response(code, body))

-----------------------------------------------------------------------------
(* create_pix_recipient, create_spei_recipient                             *)

create_pix_recipient(pix_key, pix_key_type, name, tax_id) ==
    LET recipient == [type |-> "pix", pix_key |-> pix_key,
                      pix_key_type |-> pix_key_type, name |-> name]
    IN  IF TruthyStr(tax_id)
        THEN recipient @@ ("tax_id" :> Value(tax_id))
        ELSE recipient

create_spei_recipient(clabe, name, rfc) ==
    LET recipient == [type |-> "spei", clabe |-> clabe, name |-> name]
    IN  IF TruthyStr(rfc)
        THEN recipient @@ ("rfc" :> Value(rfc))
        ELSE recipient

PixKeys == {"maria@email.com", "12345678909"}
PixKeyTypes == {"email", "cpf"}
Names == {"Maria Silva"}
Clabes == {"012180001234567897"}

\* A call of a module-level function: no request, no client state
LocalCallFrame ==
    /\ pc = "idle"
    /\ lastReq' = NoValue
    /\ lastResp' = NoValue
    /\ sent' = 0
    /\ start_time' = 0 /\ status' = NoValue /\ seen' = << >> /\ sleeps' = 0
    /\ UNCHANGED << config, pc, now >>

CreatePixRecipient(pix_key, pix_key_type, name, tax_id) ==
    /\ LocalCallFrame
    /\ op' = "create_pix_recipient"
    /\ args' = [pix_key |-> pix_key, pix_key_type |-> pix_key_type, name |-> name,
                tax_id |-> tax_id]
    /\ outcome' = Returned(create_pix_recipient(pix_key, pix_key_type, name, tax_id))

CreateSpeiRecipient(clabe, name, rfc) ==
    /\ LocalCallFrame
    /\ op' = "create_spei_recipient"
    /\ args' = [clabe |-> clabe, name |-> name, rfc |-> rfc]
    /\ outcome' = Returned(create_spei_recipient(clabe, name, rfc))

\* The recipient the caller builds for acquire_token, on either rail
Rails == {"pix", "spei"}
Recipient(rail, opt) ==
    IF rail = "pix"
    THEN create_pix_recipient("maria@email.com", "email", "Maria Silva", opt)
    ELSE create_spei_recipient("012180001234567897", "Maria Silva", opt)

-----------------------------------------------------------------------------
(* acquire_token                                                           *)

AcquirePayload(corridor, amount, currency, recipient, metadata) ==
    LET payload == [corridor |-> corridor, amount |-> amount,
                    currency |-> currency, recipient |-> recipient]
    IN  IF TruthyDict(metadata)
        THEN payload @@ ("metadata" :> Value(metadata))
        ELSE payload

acquire_token(self, corridor, amount, currency, recipient, metadata, code, body) ==
    SimpleCall("acquire_token",
               [corridor |-> corridor, amount |-> amount, currency |-> currency,
                recipient |-> recipient, metadata |-> metadata],
               Post(self, self.base_url \o "/v1/ucp/tokens",
                    AcquirePayload(corridor, amount, currency, recipient, metadata)),
               Response(code, body))

-----------------------------------------------------------------------------
(* settle                                                                  *)

SettlePayload(token, idempotency_key) ==
    LET payload == [token |-> token]
    IN  IF TruthyStr(idempotency_key)
        THEN payload @@ ("idempotency_key" :> Value(idempotency_key))
        ELSE payload

settle(self, token, idempotency_key, code, body) ==
    SimpleCall("settle",
               [token |-> token, idempotency_key |-> idempotency_key],
               Post(self, self.base_url \o "/v1/ucp/settle",
                    SettlePayload(token, idempotency_key)),
               Response(code, body))

-----------------------------------------------------------------------------
(* get_settlement_status                                                   *)

StatusUrl(self, settlement_id) ==
    self.base_url \o "/v1/ucp/settlements/" \o settlement_id

get_settlement_status(self, settlement_id, code, body) ==
    SimpleCall("get_settlement_status",
               [settlement_id |-> settlement_id],
               Get(self, StatusUrl(self, settlement_id)),
               Response(code, body))

-----------------------------------------------------------------------------
(* wait_for_completion                                                     *)

POLL_SECONDS == 2

\* while time.time() - start_time < max_wait_seconds
\* (variants: <= for <, and the poll interval taken off the deadline)
LoopCondInclusive(elapsed, max_wait_seconds) == elapsed <= max_wait_seconds
LoopCondShort(elapsed, max_wait_seconds) == elapsed + 2 < max_wait_seconds
LoopCond(elapsed, max_wait_seconds) == elapsed < max_wait_seconds

\* status["status"] == "completed" (variant: "pending" passes the test too)
IsCompletedOrPending(rec) == rec.status \in {"completed", "pending"}
IsCompleted(rec) == rec.status = "completed"

\* status["status"] == "failed" (variant: the test is missing)
IsFailedNever(rec) == FALSE
IsFailed(rec) == rec.status = "failed"

\* status.get('failure_reason'), formatted by the f-string
FailureReason(rec) ==
    IF "failure_reason" \in DOMAIN rec THEN rec.failure_reason ELSE "None"

FailureMessage(rec) == "Settlement failed: " \o FailureReason(rec)

TimeoutMessage == "Settlement timed out"

InWait == pc \in {"while", "poll", "sleep"}

\* the call, up to start_time = time.time(); the status reads go through self
\* (the one client) in WaitPoll
wait_for_completion(self, settlement_id, max_wait_seconds) ==
    /\ pc = "idle"
    /\ now <= MaxClock
    /\ op' = "wait_for_completion"
    /\ args' = [settlement_id |-> settlement_id, max_wait_seconds |-> max_wait_seconds]
    /\ outcome' = NoValue
    /\ lastReq' = NoValue
    /\ lastResp' = NoValue
    /\ sent' = 0
    /\ start_time' = now
    /\ status' = NoValue /\ seen' = << >> /\ sleeps' = 0
    /\ pc' = "while"
    /\ UNCHANGED << config, now >>

\* the loop condition; past the loop, raise Exception("Settlement timed out")
WaitWhile ==
    /\ pc = "while"
    /\ IF LoopCond(now - start_time, args.max_wait_seconds)
       THEN /\ pc' = "poll"
            /\ UNCHANGED outcome
       ELSE /\ pc' = "idle"
            /\ outcome' = Raised(TimeoutMessage)
    /\ UNCHANGED << config, op, args, lastReq, lastResp, sent, now, locals >>

\* status = self.get_settlement_status(settlement_id), then the two tests on it.
\* status["status"] raises KeyError on a body without that field; here only the
\* body of an error response has none.
WaitPoll(code, body, cost) ==
    /\ pc = "poll"
    /\ LET resp == Response(code, body)
       IN  /\ lastReq' = Get(client, StatusUrl(client, args.settlement_id))
           /\ lastResp' = resp
           /\ sent' = sent + 1
           /\ now' = now + cost
           /\ IF RaiseForStatus(resp)
              THEN /\ outcome' = HTTPError(resp)
                   /\ pc' = "idle"
                   /\ UNCHANGED << status, seen >>
              ELSE /\ status' = resp.body
                   /\ seen' = Append(seen, resp.body)
                   /\ IF "status" \notin DOMAIN resp.body
                      THEN /\ outcome' = KeyError("status")
                           /\ pc' = "idle"
                      ELSE IF IsCompleted(resp.body)
                      THEN /\ outcome' = Returned(resp.body)
                           /\ pc' = "idle"
                      ELSE IF IsFailed(resp.body)
                      THEN /\ outcome' = Raised(FailureMessage(resp.body))
                           /\ pc' = "idle"
                      ELSE /\ pc' = "sleep"
                           /\ UNCHANGED outcome
    /\ UNCHANGED << config, op, args, start_time, sleeps >>

\* time.sleep(2): returns no sooner than 2 seconds later
WaitSleep(over) ==
    /\ pc = "sleep"
    /\ now' = now + POLL_SECONDS + over
    /\ sleeps' = sleeps + 1
    /\ pc' = "while"
    /\ UNCHANGED << config, op, args, outcome, lastReq, lastResp, sent,
                    start_time, status, seen >>

-----------------------------------------------------------------------------
(* The caller                                                              *)

Next ==
    \/ \E c \in Corridors, a \in Amounts, cur \in Currencies,
          code \in StatusCodes, body \in Bodies :
            get_quote(client, c, a, cur, code, body)
    \/ \E c \in Corridors, a \in Amounts, cur \in Currencies, rail \in Rails,
          opt \in OptStrings, m \in OptDicts, code \in StatusCodes, body \in Bodies :
            acquire_token(client, c, a, cur, Recipient(rail, opt), m, code, body)
    \/ \E t \in Tokens, k \in OptStrings, code \in StatusCodes, body \in Bodies :
            settle(client, t, k, code, body)
    \/ \E id \in SettlementIds, code \in StatusCodes, body \in StatusRecords :
            get_settlement_status(client, id, code, body)
    \/ \E k \in PixKeys, kt \in PixKeyTypes, n \in Names, t \in OptStrings :
            CreatePixRecipient(k, kt, n, t)
    \/ \E c \in Clabes, n \in Names, r \in OptStrings :
            CreateSpeiRecipient(c, n, r)
    \/ \E id \in SettlementIds, m \in MaxWaits :
            wait_for_completion(client, id, m)
    \/ WaitWhile
    \/ \E code \in StatusCodes, body \in StatusRecords, cost \in 0 .. MaxReadCost :
            WaitPoll(code, body, cost)
    \/ \E over \in 0 .. MaxOversleep :
            WaitSleep(over)

Spec == Init /\ [][Next]_vars

\* Every call returns, and the caller's thread keeps running: a status read and a
\* sleep that have begun end, and the loop condition is evaluated.
WaitStep ==
    \/ WaitWhile
    \/ \E code \in StatusCodes, body \in StatusRecords, cost \in 0 .. MaxReadCost :
            WaitPoll(code, body, cost)
    \/ \E over \in 0 .. MaxOversleep :
            WaitSleep(over)

FairSpec == Spec /\ WF_vars(WaitStep)

-----------------------------------------------------------------------------
(* Vocabulary of the properties                                            *)

WaitOp == op = "wait_for_completion"
WaitDone == WaitOp /\ pc = "idle"
Elapsed == now - start_time
MaxWaitSeconds == args.max_wait_seconds
TimedOut == WaitDone /\ outcome = [kind |-> "Exception", message |-> "Settlement timed out"]
StatusOf(i) == seen[i].status
AllPending == \A i \in 1 .. Len(seen) : StatusOf(i) = "pending"
\* every status read of the call so far returned a record (none raised)
NoTransportError == sent = Len(seen)
\* the clock advanced by exactly 2 seconds per sleep and not otherwise
NominalTiming == Elapsed = 2 * sleeps
\* ceil(m / 2) for m > 0, and 0 for m <= 0
CeilHalf(m) == IF m <= 0 THEN 0 ELSE (m + 1) \div 2

\* The reads of the call so far agree with a server that answers k times
\* "pending" and then "completed"
AgreesWithScript(k) ==
    /\ NoTransportError
    /\ Len(seen) <= k + 1
    /\ \A i \in 1 .. Len(seen) :
          StatusOf(i) = (IF i <= k THEN "pending" ELSE "completed")

ReturnsAfter(k) ==
    /\ Len(seen) = k + 1
    /\ outcome = [kind |-> "return", value |-> seen[k + 1]]
    /\ sent = k + 1
    /\ sleeps = k

-----------------------------------------------------------------------------
\* C1 as stated: for every k >= 0 with 2*k < max_wait_seconds, a call that ran
\* against a server answering k times "pending" and then "completed" has
\* returned the record of read k+1 after k+1 reads and k sleeps, whatever the
\* clock did.
C1_AsStated ==
    WaitDone =>
        \A k \in 0 .. MaxWait :
            (2 * k < MaxWaitSeconds /\ AgreesWithScript(k)) => ReturnsAfter(k)

\* C1: for every k >= 0 with 2*k < max_wait_seconds, when the clock advances
\* by exactly 2 seconds per sleep and not otherwise, a call that ran against a
\* server answering k times "pending" and then "completed" has returned
\* exactly the record of read k+1, after exactly k+1 status reads and k sleeps.
C1_ReturnsCompletedRecord ==
    (WaitDone /\ NominalTiming) =>
        \A k \in 0 .. MaxWait :
            (2 * k < MaxWaitSeconds /\ AgreesWithScript(k)) => ReturnsAfter(k)

C1_Witness ==
    /\ WaitDone /\ NominalTiming
    /\ MaxWaitSeconds = 5
    /\ AgreesWithScript(2) /\ ReturnsAfter(2)

\* C2: a call all of whose status reads returned "pending" ends with the
\* exception "Settlement timed out" and returns nothing; no call returns a
\* record whose status is "pending".
C2_PendingTimesOut ==
    /\ (WaitDone /\ NoTransportError /\ AllPending) => TimedOut
    /\ (WaitOp /\ outcome.kind = "return") => outcome.value.status # "pending"

C2_Witness ==
    /\ TimedOut /\ NoTransportError /\ AllPending
    /\ Len(seen) >= 2

\* C3: when a status read returns "failed", the call has ended at that read
\* with the exception "Settlement failed: <failure_reason of that record>":
\* the record is the last one read, no read and no sleep followed it.
C3_FailedRaisesReason ==
    WaitOp =>
        \A i \in 1 .. Len(seen) :
            StatusOf(i) = "failed" =>
                /\ i = Len(seen)
                /\ pc = "idle"
                /\ outcome = [kind |-> "Exception",
                              message |-> "Settlement failed: " \o
                                  (IF "failure_reason" \in DOMAIN seen[i]
                                   THEN seen[i].failure_reason ELSE "None")]
                /\ sent = i
                /\ sleeps = i - 1
                /\ lastResp.body = seen[i]

C3_Witness ==
    /\ WaitDone
    /\ Len(seen) = 2
    /\ seen[2] = [status |-> "failed", failure_reason |-> "insufficient_funds"]
    /\ outcome.kind = "Exception"

\* C4 as stated: the call times out only once the elapsed time exceeds
\* max_wait_seconds; a loop check at elapsed <= max_wait_seconds issues a read.
C4_AsStated ==
    /\ TimedOut => Elapsed > MaxWaitSeconds
    /\ (WaitOp /\ pc = "poll") => Elapsed <= MaxWaitSeconds

\* C4: the call polls once per sleep of 2 seconds while the status read is
\* neither "completed" nor "failed"; a loop check issues one more read exactly
\* when the elapsed time is below max_wait_seconds, and raises the timeout
\* error exactly when it has reached max_wait_seconds (elapsed >= max).
C4_PollsWhileBelowDeadline ==
    /\ TimedOut => Elapsed >= MaxWaitSeconds
    /\ (WaitOp /\ pc = "poll") => (Elapsed < MaxWaitSeconds /\ sleeps = sent)
    /\ (WaitOp /\ pc = "sleep") =>
          /\ StatusOf(Len(seen)) \notin {"completed", "failed"}
          /\ sent = sleeps + 1

C4_Witness ==
    /\ TimedOut
    /\ Elapsed = MaxWaitSeconds
    /\ sent >= 1

\* C5: get_quote, acquire_token, settle and get_settlement_status issue one
\* request per call and raise HTTPError on a 4xx/5xx response, returning the
\* body otherwise; a status read of wait_for_completion that raises HTTPError
\* ends the call with that error, and no read follows it.
C5_TransportErrorsPropagate ==
    /\ (pc = "idle" /\ op \in {"get_quote", "acquire_token", "settle",
                               "get_settlement_status"}) =>
          /\ sent = 1
          /\ lastResp.status_code >= 400 =>
                outcome = [kind |-> "HTTPError", status_code |-> lastResp.status_code]
          /\ lastResp.status_code < 400 =>
                outcome = [kind |-> "return", value |-> lastResp.body]
    /\ (WaitOp /\ lastResp # NoValue /\ lastResp.status_code >= 400) =>
          /\ pc = "idle"
          /\ outcome = [kind |-> "HTTPError", status_code |-> lastResp.status_code]
          /\ sent = Len(seen) + 1

C5_Witness ==
    /\ WaitDone
    /\ outcome.kind = "HTTPError"
    /\ sent = 2

\* C6 as stated: the payload of settle carries the token, carries
\* idempotency_key with the supplied value whenever a key is supplied (the
\* empty string too), and has no idempotency_key when none is supplied.
C6_AsStated ==
    (pc = "idle" /\ op = "settle") =>
        /\ lastReq.json.token = args.token
        /\ Supplied(args.idempotency_key) =>
              /\ "idempotency_key" \in DOMAIN lastReq.json
              /\ lastReq.json.idempotency_key = Value(args.idempotency_key)
        /\ ~Supplied(args.idempotency_key) =>
              "idempotency_key" \notin DOMAIN lastReq.json

\* C7 as stated: the recipient constructors carry the required fields, carry
\* tax_id / rfc with the supplied value whenever one is supplied (the empty
\* string too), and omit it when none is supplied.
C7_AsStated ==
    /\ (pc = "idle" /\ op = "create_pix_recipient") =>
          /\ outcome.kind = "return"
          /\ outcome.value.type = "pix"
          /\ outcome.value.pix_key = args.pix_key
          /\ outcome.value.pix_key_type = args.pix_key_type
          /\ outcome.value.name = args.name
          /\ Supplied(args.tax_id) =>
                /\ "tax_id" \in DOMAIN outcome.value
                /\ outcome.value.tax_id = Value(args.tax_id)
          /\ ~Supplied(args.tax_id) => "tax_id" \notin DOMAIN outcome.value
    /\ (pc = "idle" /\ op = "create_spei_recipient") =>
          /\ outcome.kind = "return"
          /\ outcome.value.type = "spei"
          /\ outcome.value.clabe = args.clabe
          /\ outcome.value.name = args.name
          /\ Supplied(args.rfc) =>
                /\ "rfc" \in DOMAIN outcome.value
                /\ outcome.value.rfc = Value(args.rfc)
          /\ ~Supplied(args.rfc) => "rfc" \notin DOMAIN outcome.value

\* C8 as stated: the payload of acquire_token carries corridor, amount,
\* currency and recipient, carries metadata with the supplied value whenever
\* one is supplied (the empty dictionary too), and has no metadata otherwise.
C8_AsStated ==
    (pc = "idle" /\ op = "acquire_token") =>
        /\ lastReq.json.corridor = args.corridor
        /\ lastReq.json.amount = args.amount
        /\ lastReq.json.currency = args.currency
        /\ lastReq.json.recipient = args.recipient
        /\ Supplied(args.metadata) =>
              /\ "metadata" \in DOMAIN lastReq.json
              /\ lastReq.json.metadata = Value(args.metadata)
        /\ ~Supplied(args.metadata) => "metadata" \notin DOMAIN lastReq.json

\* C9: api_key, base_url and headers keep the values __init__ gave them
\* through every call, ended or running, and every request carries exactly
\* those headers.
C9_ConfigUnchanged ==
    /\ api_key = ctor.api_key
    /\ base_url = ctor.base_url
    /\ headers = [Authorization |-> "Bearer " \o ctor.api_key]
                   @@ ("Content-Type" :> "application/json")
                   @@ ("UCP-Agent" :> "PythonExample/2026-01-11")
    /\ lastReq # NoValue => lastReq.headers = headers

C9_Witness ==
    /\ WaitDone
    /\ sent >= 2
    /\ outcome.kind = "HTTPError"
    /\ lastReq.headers = headers
    /\ api_key = "pk_test_2"

\* C10: with every read and sleep returning and the clock advancing by at
\* least 2 seconds per sleep, wait_for_completion ends, for every sequence of
\* statuses, in one of: a returned "completed" record, the settlement-failure
\* error, the timeout error, a propagated HTTPError; it issues at most
\* ceil(max_wait_seconds / 2) status reads, none when max_wait_seconds <= 0.
C10_Outcome ==
    \/ /\ outcome.kind = "return"
       /\ outcome.value.status = "completed"
    \/ /\ outcome.kind = "Exception"
       /\ Len(seen) > 0
       /\ StatusOf(Len(seen)) = "failed"
       /\ outcome.message = "Settlement failed: " \o FailureReason(seen[Len(seen)])
    \/ /\ outcome.kind = "Exception"
       /\ outcome.message = "Settlement timed out"
    \/ outcome.kind = "HTTPError"

C10_Terminates ==
    /\ InWait ~> WaitDone
    /\ [](WaitDone => C10_Outcome)
    /\ [](WaitOp => sent <= CeilHalf(MaxWaitSeconds))

C10_Witness ==
    /\ WaitDone
    /\ MaxWaitSeconds = 5
    /\ sent = 3
    /\ StatusOf(1) = "processing"
    /\ C10_Outcome

====
